---- MODULE Spec2Model ----
(***************************************************************************)
(* State-machine model of ESP8266Interface (src/ESP8266Interface.cpp): the *)
(* socket table _ids, the callback table _cbs, the heap-allocated          *)
(* esp8266_socket objects behind the opaque handles, and the timeout of    *)
(* the ESP8266 transport object _esp.                                      *)
(*                                                                         *)
(* ESP8266.cpp (the transport) is not part of the sources at hand: the     *)
(* outcome of an exchange (_esp.open/close/send) is an input of the        *)
(* action that issues it, and the transport's per-id count of buffered     *)
(* inbound bytes (pending) follows spec.md sections 3, 4.2 and 4.3.        *)
(***************************************************************************)
EXTENDS Integers, Sequences, FiniteSets, TLC

VARIABLES
    ids,        \* bool _ids[ESP8266_SOCKET_COUNT]
    cbs,        \* _cbs[ESP8266_SOCKET_COUNT]: callback/data pair, NoCb = null
    heap,       \* handle (address) -> struct esp8266_socket, or unallocated/freed
    pending,    \* transport side: bytes buffered per socket id
    timeout,    \* value last passed to _esp.setTimeout
    op,         \* name of the last call or notification
    arg,        \* its arguments: h the handle it was made on and id the
                \* socket->id read through it (for open, the handle and id it
                \* handed out), n the buffer size; for a notification, id the
                \* socket id it names and n its byte count; peer the address
                \* and cb the callback/data pair passed in, if any; cfg the
                \* arguments of a configuration call
    ret,        \* its return value
    xlog,       \* transport exchanges the last call issued, in order
    fired,      \* callbacks the last call invoked: the id and the callback/data
                \* pair of each
    lastpeer,   \* transport side: per id, the peer of its last successful open
    out,        \* address written through the caller's SocketAddress* (recvfrom)
    use,        \* the caller's usage profile in this run (a bound, see Caps)
    sta,        \* _sta: station credentials and channel
    dhcps       \* _dhcps: DHCP-server configuration of the soft AP

vars == <<ids, cbs, heap, pending, timeout, op, arg, ret, xlog, fired, lastpeer,
          out, use, sta, dhcps>>

----------------------------------------------------------------------------
(* Program constants *)

ESP8266_SOCKET_COUNT == 5
ESP8266_CONNECT_TIMEOUT == 15000
ESP8266_SEND_TIMEOUT == 500
ESP8266_RECV_TIMEOUT == 0
ESP8266_MISC_TIMEOUT == 500

NSAPI_ERROR_OK == 0
NSAPI_ERROR_WOULD_BLOCK == -3001
NSAPI_ERROR_UNSUPPORTED == -3002
NSAPI_ERROR_NO_CONNECTION == -3004
NSAPI_ERROR_NO_SOCKET == -3005
NSAPI_ERROR_DNS_FAILURE == -3009
NSAPI_ERROR_DHCP_FAILURE == -3010
NSAPI_ERROR_DEVICE_ERROR == -3012

(* Bounds of the model *)

MaxHandles == 6        \* heap addresses a socket object can live at
MaxSize == 1           \* largest buffer size passed to send/recv
MaxPending == 2        \* cap on the bytes the transport buffers
MaxLive == 2           \* sockets open at a time in the "events" profile
MaxUdp == 1            \* UDP sockets open at a time
MaxConnected == 1      \* sockets connected or bound to a peer at a time
MaxAttached == 1       \* table entries holding a callback at a time
MaxChannel == 1        \* largest WiFi channel passed in
MaxLease == 2          \* longest DHCP lease time passed in

Ids == 0 .. (ESP8266_SOCKET_COUNT - 1)
Handles == 1 .. MaxHandles
Protos == {"TCP", "UDP"}
Peers == {"A", "B"}
NoAddr == "unset"
Addrs == Peers \cup {NoAddr}
NoCb == "null"
Callbacks == {"cb1", "cb2"}
NoTimeout == -1
Sizes == {0, MaxSize}

(* C strings.  A text is the sequence of its characters, none of them NUL; *)
(* a char[n] field is a sequence of n characters.                          *)
NUL == 0
Text(c, n) == [i \in 1 .. n |-> c]

(* memset(dst, 0, sizeof(dst)); strncpy(dst, src, sizeof(dst)): the first *)
(* n characters of src, NUL after them when src is shorter than n.        *)
Strncpy(src, n) == [i \in 1 .. n |-> IF i <= Len(src) THEN src[i] ELSE NUL]

(* Whether a field holds a terminated string, and the string it holds. *)
Terminated(buf) == \E i \in 1 .. Len(buf) : buf[i] = NUL
CStr(buf) ==
    LET k == CHOOSE k \in 1 .. Len(buf) + 1 :
                 /\ k = Len(buf) + 1 \/ buf[k] = NUL
                 /\ \A j \in 1 .. k - 1 : buf[j] # NUL
    IN  SubSeq(buf, 1, k - 1)

(* Sizes of the text fields of _sta and _dhcps. *)
SsidSize == 33
PassSize == 64
IpSize == 16

(* SSIDs and passphrases: one character, and the longest the field holds. *)
Ssids == {Text(1, 1), Text(2, SsidSize - 1)}
Passes == {Text(3, 1), Text(4, PassSize - 1)}
Securities == {"NONE", "WPA2"}
Channels == 0 .. MaxChannel
Leases == 1 .. MaxLease
(* A const char * argument: the null pointer or a pointer to a text. *)
NullStr == [null |-> TRUE, text |-> <<>>]
Ptr(t) == [null |-> FALSE, text |-> t]
(* Address arguments: null, the empty string, the longest text the field *)
(* holds with its terminator (an IPv4 address has at most 15             *)
(* characters), and a text one character longer.                         *)
StartIps == {NullStr, Ptr(<<>>), Ptr(Text(5, IpSize - 1)), Ptr(Text(5, IpSize))}
EndIps == {NullStr, Ptr(<<>>), Ptr(Text(6, IpSize - 1)), Ptr(Text(6, IpSize))}
(* What a field may hold that the program never wrote, or that strncpy *)
(* filled from the null pointer: zeroes, or characters without a NUL.  *)
Garbage(n) == {Text(NUL, n), Text(7, n)}

(* _sta and _dhcps: the constructor does not initialise them.  Zeroed is *)
(* what static storage gives.                                            *)
StaConfigs ==
    [ssid : {Strncpy(t, SsidSize) : t \in Ssids},
     pass : {Strncpy(t, PassSize) : t \in Passes},
     sec : Securities, ch : Channels]
StaZero == [ssid |-> Text(NUL, SsidSize), pass |-> Text(NUL, PassSize),
            sec |-> "NONE", ch |-> 0]
DhcpsConfigs ==
    [enable : BOOLEAN, start_ip : Garbage(IpSize), end_ip : Garbage(IpSize),
     lease_time : Leases]
(* Every value a char[16] address field takes. *)
IpFields ==
    Garbage(IpSize) \cup
    {Strncpy(p.text, IpSize) : p \in (StartIps \cup EndIps) \ {NullStr}}
DhcpsZero == [enable |-> FALSE, start_ip |-> Text(NUL, IpSize),
              end_ip |-> Text(NUL, IpSize), lease_time |-> 0]
Counts == {1, MaxPending}

(* A heap cell: st is "none" (never allocated), "live" or "freed". *)
NoCell == [st |-> "none", id |-> 0, proto |-> "TCP", connected |-> FALSE, addr |-> NoAddr]
FreedCell == [st |-> "freed", id |-> 0, proto |-> "TCP", connected |-> FALSE, addr |-> NoAddr]
Live == {h \in Handles : heap[h].st = "live"}
Freed == {h \in Handles : heap[h].st = "freed"}

----------------------------------------------------------------------------
(* Helpers *)

Min(a, b) == IF a < b THEN a ELSE b

(* One transport exchange: the timeout in force when it is issued, and   *)
(* whether the transport reported success.                               *)
Xchg(x, peer, t, ok) == [x |-> x, peer |-> peer, t |-> t, ok |-> ok]

(* Variant: a call site that issues the exchange again when it fails. *)
IssueRetry(x, peer, t, ok) ==
    IF ok THEN <<Xchg(x, peer, t, ok)>> ELSE <<Xchg(x, peer, t, ok), Xchg(x, peer, t, ok)>>

(* The exchanges one call of an _esp method issues: the code has no loop *)
(* around any of them.                                                   *)
Issue(x, peer, t, ok) == <<Xchg(x, peer, t, ok)>>

(* Variant: a setTimeout that is left out. *)
SetTimeoutKeep(cur, t) == cur

(* _esp.setTimeout(t): the timeout in force from here on. *)
SetTimeout(cur, t) == t

Arg(h, id, n) ==
    [h |-> h, id |-> id, n |-> n, peer |-> NoAddr, cb |-> NoCb, cfg |-> <<>>]
NoArg == Arg(0, -1, 0)

(* Variants of the scan: one that keeps the last free index it sees, one *)
(* whose id starts at 0 instead of -1.                                   *)
ScanFreeLast(t) ==
    IF \E i \in Ids : ~t[i]
    THEN CHOOSE i \in Ids : ~t[i] /\ \A j \in Ids : j > i => t[j]
    ELSE -1
ScanFreeWrap(t) ==
    IF \E i \in Ids : ~t[i]
    THEN CHOOSE i \in Ids : ~t[i] /\ \A j \in Ids : j < i => t[j]
    ELSE 0

(* socket_open's scan: the first i with !_ids[i], or -1. *)
ScanFree(t) ==
    IF \E i \in Ids : ~t[i]
    THEN CHOOSE i \in Ids : ~t[i] /\ \A j \in Ids : j < i => t[j]
    ELSE -1

(* operator new: handles are opaque to the program, so the lowest address *)
(* that holds no live object stands for whichever one the allocator picks. *)
NewHandle == CHOOSE h \in Handles : h \notin Live /\ \A g \in Handles : g < h => g \in Live

(* Variant: the scan that forgets to mark the slot. *)
ClaimNone(t, id) == t

(* _ids[i] = true *)
Claim(t, id) == [t EXCEPT ![id] = TRUE]

(* Variants: a close that keeps the slot when the exchange fails, and one *)
(* that clears the whole table.                                           *)
ReleaseIfOk(t, id, ok) == IF ok THEN [t EXCEPT ![id] = FALSE] ELSE t
ReleaseAll(t, id, ok) == [i \in Ids |-> FALSE]

(* _ids[socket->id] = false *)
Release(t, id, ok) == [t EXCEPT ![id] = FALSE]

(* Variant: the transport's result handed through unmapped. *)
RecvResultRaw(r) == r

(* socket_recv's mapping of the transport's result. *)
RecvResult(r) == IF r < 0 THEN NSAPI_ERROR_WOULD_BLOCK ELSE r

(* Variant: connected is set whatever the exchange reported. *)
AfterConnectAlways(s, ok) == [s EXCEPT !.connected = TRUE]

(* socket_connect's effect on the object: connected = true after a *)
(* successful open exchange, nothing otherwise; addr is not written. *)
AfterConnect(s, ok) == IF ok THEN [s EXCEPT !.connected = TRUE] ELSE s

(* Variant: the failure of the open exchange is not reported. *)
ConnectResultOk(ok) == 0

(* socket_connect's return value. *)
ConnectResult(ok) == IF ok THEN 0 ELSE NSAPI_ERROR_DEVICE_ERROR

(* Variant: every sendto on a connected socket retargets. *)
RetargetAlways(s, addr) == s.connected

(* socket_sendto's test for a new peer. *)
Retarget(s, addr) == s.connected /\ s.addr # addr

(* Variant: connected is cleared whatever the close exchange reported. *)
AfterCloseAlways(s, ok) == [s EXCEPT !.connected = FALSE]

(* socket_sendto's retarget: socket->connected = false once the close *)
(* exchange has succeeded; a failed close returns before that.        *)
AfterClose(s, ok) == IF ok THEN [s EXCEPT !.connected = FALSE] ELSE s

(* Variant: the peer is not written down. *)
RecordNot(s, addr) == s

(* socket_sendto: socket->addr = addr *)
Record(s, addr) == [s EXCEPT !.addr = addr]

(* Variant: an attach that keeps a callback already registered. *)
AttachKeep(c, id, cb) == IF c[id] = NoCb THEN [c EXCEPT ![id] = cb] ELSE c

(* socket_attach: _cbs[socket->id] = {callback, data} *)
Attach(c, id, cb) == [c EXCEPT ![id] = cb]

(* The callbacks event() invokes: every entry with a non-null callback, *)
(* each with the data registered beside it.                             *)
InvokedNone(c) == {}

(* event(): every entry of _cbs that holds a callback, whether or not a *)
(* socket holds the id.                                                 *)
Invoked(c) == {[id |-> i, cb |-> c[i]] : i \in {j \in Ids : c[j] # NoCb}}

(* Transport, after spec.md: recv yields -1 when nothing is buffered for  *)
(* the id, else as many bytes as are buffered and fit.                    *)
EspRecv(p, id, size) == IF p[id] = 0 THEN -1 ELSE Min(p[id], size)
(* Variant: a recv that leaves the buffered count as it was. *)
DrainNone(p, id, r) == p
Drain(p, id, r) == IF r > 0 THEN [p EXCEPT ![id] = IF @ > r THEN @ - r ELSE 0] ELSE p
(* Socket Table, after spec.md: a slot entering or leaving Free carries no *)
(* pending-byte state; a data notification for a Free id is dropped.       *)
ClearPending(p, id) == [p EXCEPT ![id] = 0]
(* Transport: the peer an id was last opened to; none for a fresh slot. *)
EspOpen(l, id, addr, ok) == IF ok THEN [l EXCEPT ![id] = addr] ELSE l
ClearPeer(l, id) == [l EXCEPT ![id] = NoAddr]
Notify(p, t, k, n) == IF t[k] THEN [p EXCEPT ![k] = @ + n] ELSE p

(* Bounds on the caller and the peer.  A run keeps to one usage profile:  *)
(* "table" fills the whole socket table, "admin" mixes the interface's    *)
(* own operations with one socket, "station" and "softap" configure the  *)
(* interface, the others work a few sockets harder.                       *)
(* Every operation is the same in every profile; only how many           *)
(* sockets, peers, callbacks and buffered bytes are in play differs.      *)
Caps ==
    [table   |-> [live |-> MaxHandles, udp |-> 0, conn |-> 0,
                  att |-> 0, buf |-> 0, fac |-> 0, cfg |-> "none"],
     events  |-> [live |-> MaxLive, udp |-> 0, conn |-> 0,
                  att |-> MaxAttached, buf |-> MaxPending, fac |-> 0, cfg |-> "none"],
     peers   |-> [live |-> MaxConnected, udp |-> 0, conn |-> MaxConnected,
                  att |-> 0, buf |-> 0, fac |-> 0, cfg |-> "none"],
     dgram   |-> [live |-> 1, udp |-> MaxUdp, conn |-> MaxConnected,
                  att |-> 0, buf |-> MaxPending, fac |-> 0, cfg |-> "none"],
     admin   |-> [live |-> 1, udp |-> 0, conn |-> 0,
                  att |-> 0, buf |-> 0, fac |-> 1, cfg |-> "none"],
     station |-> [live |-> 0, udp |-> 0, conn |-> 0,
                  att |-> 0, buf |-> 0, fac |-> 0, cfg |-> "sta"],
     softap  |-> [live |-> 0, udp |-> 0, conn |-> 0,
                  att |-> 0, buf |-> 0, fac |-> 0, cfg |-> "ap"]]
Profiles == DOMAIN Caps
Cap == Caps[use]
Touched(h) == heap[h].connected \/ heap[h].addr # NoAddr
CanOpen(proto) ==
    /\ Cardinality(Live) < Cap.live
    /\ proto = "TCP" \/ Cardinality({g \in Live : heap[g].proto = "UDP"}) < Cap.udp
CanTouch(h) == Touched(h) \/ Cardinality({g \in Live : Touched(g)}) < Cap.conn
CanAttach(id, cb) ==
    cb = NoCb \/ cbs[id] # NoCb \/ Cardinality({i \in Ids : cbs[i] # NoCb}) < Cap.att
Buffered == pending[0] + pending[1] + pending[2] + pending[3] + pending[4]
CanBuffer(k, n) == ~ids[k] \/ Buffered + n <= Cap.buf
CanAdmin == Cap.fac = 1
CanStation == Cap.cfg = "sta"
CanSoftAp == Cap.cfg = "ap"

TypeOK ==
    /\ ids \in [Ids -> BOOLEAN]
    /\ cbs \in [Ids -> Callbacks \cup {NoCb}]
    /\ \A h \in Handles :
          /\ heap[h].st \in {"none", "live", "freed"}
          /\ heap[h].id \in Ids
          /\ heap[h].proto \in Protos
          /\ heap[h].connected \in BOOLEAN
          /\ heap[h].addr \in Addrs
    /\ pending \in [Ids -> 0 .. MaxPending]
    /\ timeout \in {NoTimeout, ESP8266_CONNECT_TIMEOUT, ESP8266_SEND_TIMEOUT,
                    ESP8266_RECV_TIMEOUT, ESP8266_MISC_TIMEOUT}
    /\ arg.h \in Handles \cup {0}
    /\ arg.id \in Ids \cup {-1}
    /\ arg.n \in Nat
    /\ arg.peer \in Addrs
    /\ arg.cb \in Callbacks \cup {NoCb}
    /\ ret \in Int
    /\ fired \subseteq [id : Ids, cb : Callbacks]
    /\ lastpeer \in [Ids -> Addrs]
    /\ out \in Addrs \cup {"untouched"}
    /\ use \in Profiles
    /\ sta \in StaConfigs \cup {StaZero}
    /\ dhcps.enable \in BOOLEAN
    /\ dhcps.start_ip \in IpFields /\ dhcps.end_ip \in IpFields
    /\ dhcps.lease_time \in Leases \cup {0}

(* Constructor: both tables zeroed, no socket object exists.  _sta and    *)
(* _dhcps hold whatever the memory held, any value, in the profiles that  *)
(* use them.                                                              *)
Init ==
    /\ ids = [i \in Ids |-> FALSE]
    /\ cbs = [i \in Ids |-> NoCb]
    /\ heap = [h \in Handles |-> NoCell]
    /\ pending = [i \in Ids |-> 0]
    /\ timeout = NoTimeout
    /\ op = "init"
    /\ arg = NoArg
    /\ ret = 0
    /\ xlog = <<>>
    /\ fired = {}
    /\ lastpeer = [i \in Ids |-> NoAddr]
    /\ out = "untouched"
    /\ use \in Profiles
    /\ sta \in (IF CanStation THEN StaConfigs ELSE {StaZero})
    /\ dhcps \in (IF CanSoftAp THEN DhcpsConfigs ELSE {DhcpsZero})

----------------------------------------------------------------------------
(* Socket operations *)

(* operator new throws rather than return null, so the !socket branch is *)
(* never taken.                                                          *)
socket_open(proto) ==
    LET id == ScanFree(ids) IN
    /\ op' = "open"
    /\ xlog' = <<>>
    /\ fired' = {}
    /\ out' = "untouched"
    /\ UNCHANGED <<cbs, timeout, use, sta, dhcps>>
    /\ IF id = -1
       THEN /\ ret' = NSAPI_ERROR_NO_SOCKET
            /\ arg' = NoArg
            /\ UNCHANGED <<ids, heap, pending, lastpeer>>
       ELSE /\ Live # Handles
            /\ CanOpen(proto)
            /\ ids' = Claim(ids, id)
            /\ heap' = [heap EXCEPT ![NewHandle] =
                          [st |-> "live", id |-> id, proto |-> proto,
                           connected |-> FALSE, addr |-> NoAddr]]
            /\ pending' = ClearPending(pending, id)
            /\ lastpeer' = ClearPeer(lastpeer, id)
            /\ ret' = 0
            /\ arg' = Arg(NewHandle, id, 0)

(* The body of socket_close, on the id read through the handle. *)
CloseOn(h, id, ok) ==
    LET t == SetTimeout(timeout, ESP8266_MISC_TIMEOUT) IN
    /\ op' = "close"
    /\ arg' = Arg(h, id, 0)
    /\ timeout' = t
    /\ xlog' = Issue("close", NoAddr, t, ok)
    /\ ids' = Release(ids, id, ok)
    /\ pending' = ClearPending(pending, id)
    /\ lastpeer' = ClearPeer(lastpeer, id)
    /\ ret' = IF ok THEN 0 ELSE NSAPI_ERROR_DEVICE_ERROR
    /\ fired' = {}
    /\ out' = "untouched"
    /\ UNCHANGED <<cbs, use, sta, dhcps>>

socket_close(h, ok) ==
    /\ h \in Live
    /\ CloseOn(h, heap[h].id, ok)
    /\ heap' = [heap EXCEPT ![h] = FreedCell]

(* socket_close on a handle already deleted: socket->id is read from freed *)
(* memory, so any id may come back; the object is deleted a second time.   *)
socket_close_stale(h, id, ok) ==
    /\ h \in Freed
    /\ CloseOn(h, id, ok)
    /\ UNCHANGED heap

socket_connect(h, addr, ok) ==
    LET t == SetTimeout(timeout, ESP8266_MISC_TIMEOUT) IN
    /\ h \in Live
    /\ CanTouch(h)
    /\ op' = "connect"
    /\ arg' = [Arg(h, heap[h].id, 0) EXCEPT !.peer = addr]
    /\ timeout' = t
    /\ xlog' = Issue("open", addr, t, ok)
    /\ lastpeer' = EspOpen(lastpeer, heap[h].id, addr, ok)
    /\ heap' = [heap EXCEPT ![h] = AfterConnect(@, ok)]
    /\ ret' = ConnectResult(ok)
    /\ fired' = {}
    /\ out' = "untouched"
    /\ UNCHANGED <<ids, cbs, pending, use, sta, dhcps>>

socket_send(h, size, ok) ==
    LET t == SetTimeout(timeout, ESP8266_SEND_TIMEOUT) IN
    /\ h \in Live
    /\ op' = "send"
    /\ arg' = Arg(h, heap[h].id, size)
    /\ timeout' = t
    /\ xlog' = Issue("send", NoAddr, t, ok)
    /\ ret' = IF ok THEN size ELSE NSAPI_ERROR_DEVICE_ERROR
    /\ fired' = {}
    /\ out' = "untouched"
    /\ UNCHANGED <<ids, cbs, heap, pending, lastpeer, use, sta, dhcps>>

socket_recv(h, size) ==
    LET id == heap[h].id
        t == SetTimeout(timeout, ESP8266_RECV_TIMEOUT)
        r == EspRecv(pending, id, size) IN
    /\ h \in Live
    /\ op' = "recv"
    /\ arg' = Arg(h, heap[h].id, size)
    /\ timeout' = t
    /\ xlog' = Issue("recv", NoAddr, t, r >= 0)
    /\ pending' = Drain(pending, id, r)
    /\ ret' = RecvResult(r)
    /\ fired' = {}
    /\ out' = "untouched"
    /\ UNCHANGED <<ids, cbs, heap, lastpeer, use, sta, dhcps>>

(* socket_sendto, block by block: the close of a retarget, the inner *)
(* socket_connect, the inner socket_send.                            *)
socket_sendto(h, addr, size, fail) ==
    LET s == heap[h]
        id == heap[h].id
        okClose == fail # "close"
        okOpen == fail # "open"
        okSend == fail # "send"
        retarget == Retarget(s, addr)
        t1 == IF retarget THEN SetTimeout(timeout, ESP8266_MISC_TIMEOUT) ELSE timeout
        xc == IF retarget THEN Issue("close", NoAddr, t1, okClose) ELSE <<>>
        s1 == IF retarget THEN AfterClose(s, okClose) ELSE s
        t2 == SetTimeout(t1, ESP8266_MISC_TIMEOUT)
        xo == Issue("open", addr, t2, okOpen)
        err == ConnectResult(okOpen)
        s2 == AfterConnect(s1, okOpen)
        t3 == SetTimeout(IF s1.connected THEN t1 ELSE t2, ESP8266_SEND_TIMEOUT)
        xs == Issue("send", NoAddr, t3, okSend)
    IN
    /\ h \in Live
    /\ CanTouch(h)
    /\ op' = "sendto"
    /\ arg' = [Arg(h, id, size) EXCEPT !.peer = addr]
    /\ fired' = {}
    /\ out' = "untouched"
    /\ UNCHANGED <<ids, cbs, pending, use, sta, dhcps>>
    /\ IF retarget /\ ~okClose
       THEN /\ timeout' = t1
            /\ xlog' = xc
            /\ ret' = NSAPI_ERROR_DEVICE_ERROR
            /\ heap' = [heap EXCEPT ![h] = s1]
            /\ UNCHANGED lastpeer
       ELSE IF ~s1.connected /\ err < 0
       THEN /\ timeout' = t2
            /\ xlog' = xc \o xo
            /\ ret' = err
            /\ heap' = [heap EXCEPT ![h] = s2]
            /\ lastpeer' = EspOpen(lastpeer, id, addr, okOpen)
       ELSE IF ~s1.connected
       THEN /\ timeout' = t3
            /\ xlog' = xc \o xo \o xs
            /\ ret' = IF okSend THEN size ELSE NSAPI_ERROR_DEVICE_ERROR
            /\ heap' = [heap EXCEPT ![h] = Record(s2, addr)]
            /\ lastpeer' = EspOpen(lastpeer, id, addr, okOpen)
       ELSE /\ timeout' = t3
            /\ xlog' = xc \o xs
            /\ ret' = IF okSend THEN size ELSE NSAPI_ERROR_DEVICE_ERROR
            /\ heap' = [heap EXCEPT ![h] = s1]
            /\ UNCHANGED lastpeer

socket_recvfrom(h, size, wantAddr) ==
    LET id == heap[h].id
        t == SetTimeout(timeout, ESP8266_RECV_TIMEOUT)
        r == EspRecv(pending, id, size)
        res == RecvResult(r) IN
    /\ h \in Live
    /\ op' = "recvfrom"
    /\ arg' = Arg(h, heap[h].id, size)
    /\ timeout' = t
    /\ xlog' = Issue("recv", NoAddr, t, r >= 0)
    /\ pending' = Drain(pending, id, r)
    /\ ret' = res
    /\ out' = IF res >= 0 /\ wantAddr THEN heap[h].addr ELSE "untouched"
    /\ fired' = {}
    /\ UNCHANGED <<ids, cbs, heap, lastpeer, use, sta, dhcps>>

socket_attach(h, cb) ==
    /\ h \in Live
    /\ CanAttach(heap[h].id, cb)
    /\ op' = "attach"
    /\ arg' = [Arg(h, heap[h].id, 0) EXCEPT !.cb = cb]
    /\ cbs' = Attach(cbs, heap[h].id, cb)
    /\ ret' = 0
    /\ xlog' = <<>>
    /\ fired' = {}
    /\ out' = "untouched"
    /\ UNCHANGED <<ids, heap, pending, timeout, lastpeer, use, sta, dhcps>>

(* event(): the handler _esp calls whenever network state has changed. *)
event ==
    /\ fired' = Invoked(cbs)
    /\ ret' = 0
    /\ xlog' = <<>>
    /\ out' = "untouched"
    /\ UNCHANGED <<ids, cbs, heap, timeout, lastpeer, use, sta, dhcps>>

(* Unsolicited notifications of the transport, each delivered to event(). *)
DataAvailable(k, n) ==
    /\ CanBuffer(k, n)
    /\ op' = "data"
    /\ arg' = Arg(0, k, n)
    /\ pending' = Notify(pending, ids, k, n)
    /\ event

PeerClosed(k) ==
    /\ op' = "closed"
    /\ arg' = Arg(0, k, 0)
    /\ UNCHANGED pending
    /\ event

----------------------------------------------------------------------------
(* Operations of the network interface itself *)

(* Variant: a sequence of steps that goes on after a step has failed. *)
IssueStepsOn(steps, fail, t) ==
    [i \in 1 .. Len(steps) |-> Xchg(steps[i], NoAddr, t, steps[i] # fail)]

(* The exchanges of a fixed sequence of steps, all under timeout t, up to *)
(* and including the first step that fails.                               *)
RECURSIVE IssueSteps(_, _, _)
IssueSteps(steps, fail, t) ==
    IF steps = <<>> THEN <<>>
    ELSE Issue(Head(steps), NoAddr, t, Head(steps) # fail)
         \o (IF Head(steps) = fail THEN <<>> ELSE IssueSteps(Tail(steps), fail, t))

(* What every such operation leaves alone, and what it reports. *)
Facade(name, exchanges, result) ==
    /\ CanAdmin
    /\ op' = name
    /\ arg' = NoArg
    /\ xlog' = exchanges
    /\ ret' = result
    /\ fired' = {}
    /\ out' = "untouched"
    /\ UNCHANGED <<ids, cbs, heap, pending, lastpeer, use, sta, dhcps>>

disconnect(ok) ==
    LET t == SetTimeout(timeout, ESP8266_MISC_TIMEOUT) IN
    /\ timeout' = t
    /\ Facade("disconnect", Issue("disconnect", NoAddr, t, ok),
              IF ok THEN NSAPI_ERROR_OK ELSE NSAPI_ERROR_DEVICE_ERROR)

start_soft_ap(fail) ==
    LET t == SetTimeout(timeout, ESP8266_CONNECT_TIMEOUT) IN
    /\ timeout' = t
    /\ Facade("start_soft_ap",
              IssueSteps(<<"startup", "dhcp", "softAP", "dhcps">>, fail, t),
              CASE fail = "none" -> NSAPI_ERROR_OK
                [] fail = "dhcp" -> NSAPI_ERROR_DHCP_FAILURE
                [] OTHER -> NSAPI_ERROR_DEVICE_ERROR)

(* The operations below call no setTimeout: their exchange runs under *)
(* whatever timeout the operation before them left in force.          *)
stop_soft_ap(ok) ==
    /\ UNCHANGED timeout
    /\ Facade("stop_soft_ap", Issue("dhcps", NoAddr, timeout, ok),
              IF ok THEN NSAPI_ERROR_OK ELSE NSAPI_ERROR_DEVICE_ERROR)

start_tcp_server(ok) ==
    /\ UNCHANGED timeout
    /\ Facade("start_tcp_server", Issue("tcpserver", NoAddr, timeout, ok),
              IF ok THEN NSAPI_ERROR_OK ELSE NSAPI_ERROR_DEVICE_ERROR)

stop_tcp_server(ok) ==
    /\ UNCHANGED timeout
    /\ Facade("stop_tcp_server", Issue("tcpserver", NoAddr, timeout, ok),
              IF ok THEN NSAPI_ERROR_OK ELSE NSAPI_ERROR_DEVICE_ERROR)

(* get_ip_address, get_mac_address, get_gateway, get_netmask, get_rssi and *)
(* scan hand the transport's answer through: 0 stands for a value, -1 for  *)
(* the transport's failure value.                                          *)
Queries == {"get_ip_address", "get_mac_address", "get_gateway", "get_netmask",
            "get_rssi", "scan"}
query(q, ok) ==
    /\ UNCHANGED timeout
    /\ Facade(q, Issue(q, NoAddr, timeout, ok), IF ok THEN 0 ELSE 0 - 1)

(* gethostbyname: a name that is an address literal is answered without *)
(* the transport ("ip", or "ipv" when it is of the wrong version).      *)
gethostbyname(name, ok) ==
    /\ UNCHANGED timeout
    /\ CASE name = "ip" -> Facade("gethostbyname", <<>>, NSAPI_ERROR_OK)
         [] name = "ipv" -> Facade("gethostbyname", <<>>, NSAPI_ERROR_DNS_FAILURE)
         [] OTHER -> Facade("gethostbyname", Issue("dns_lookup", NoAddr, timeout, ok),
                            IF ok THEN 0 ELSE NSAPI_ERROR_DEVICE_ERROR)

FacadeOps == {"disconnect", "start_soft_ap", "stop_soft_ap", "start_tcp_server",
              "stop_tcp_server", "gethostbyname"} \cup Queries

----------------------------------------------------------------------------
(* Soft-AP DHCP-server configuration *)

(* start_ip == NULL || start_ip[0] == '\0' *)
Missing(p) == p.null \/ p.text = <<>>

(* Variant: options that are taken whatever the addresses are. *)
DhcpOptionsAny(enable, start_ip, end_ip) == TRUE

(* set_ap_dhcp_options' test of its arguments. *)
DhcpOptionsValid(enable, start_ip, end_ip) ==
    ~(enable /\ (Missing(start_ip) \/ Missing(end_ip)))

(* What memset and strncpy leave in a char[n] field; copying from the null *)
(* pointer is undefined and leaves any content.                           *)
Copied(p, n) == IF p.null THEN Garbage(n) ELSE {Strncpy(p.text, n)}

set_ap_dhcp_options(enable, start_ip, end_ip, lease_time) ==
    /\ CanSoftAp
    /\ op' = "set_ap_dhcp_options"
    /\ arg' = [NoArg EXCEPT !.cfg = [enable |-> enable, start_ip |-> start_ip,
                                     end_ip |-> end_ip, lease_time |-> lease_time]]
    /\ IF ~DhcpOptionsValid(enable, start_ip, end_ip)
       THEN /\ ret' = 0 - 1
            /\ UNCHANGED dhcps
       ELSE /\ \E s \in Copied(start_ip, IpSize), e \in Copied(end_ip, IpSize) :
                  dhcps' = [enable |-> enable, start_ip |-> s, end_ip |-> e,
                            lease_time |-> lease_time]
            /\ ret' = 0
    /\ xlog' = <<>>
    /\ fired' = {}
    /\ out' = "untouched"
    /\ UNCHANGED <<ids, cbs, heap, pending, timeout, lastpeer, use, sta>>

----------------------------------------------------------------------------
(* Station configuration and association *)

(* Variant: a connect that takes any channel. *)
ChannelAny(channel) == TRUE

(* connect(ssid, pass, security, channel): only channel 0 is taken. *)
ChannelSupported(channel) == channel = 0

(* set_credentials' writes to _sta. *)
SetCredentials(c, ssid, pass, security) ==
    [c EXCEPT !.ssid = Strncpy(ssid, SsidSize), !.pass = Strncpy(pass, PassSize),
              !.sec = security]

(* What the station operations leave alone. *)
StationFrame ==
    /\ CanStation
    /\ fired' = {}
    /\ out' = "untouched"
    /\ UNCHANGED <<ids, cbs, heap, pending, lastpeer, use, dhcps>>

(* The body of connect(): reset under the connect timeout, the firmware *)
(* version under the misc timeout, the rest under the connect timeout.  *)
Associate(fail) ==
    LET t1 == SetTimeout(timeout, ESP8266_CONNECT_TIMEOUT)
        x1 == IssueSteps(<<"reset">>, fail, t1)
        t2 == SetTimeout(t1, ESP8266_MISC_TIMEOUT)
        x2 == IssueSteps(<<"get_firmware_version">>, fail, t2)
        t3 == SetTimeout(t2, ESP8266_CONNECT_TIMEOUT)
        x3 == IssueSteps(<<"startup", "dhcp", "connect", "getIPAddress">>, fail, t3)
    IN
    IF fail = "reset"
    THEN /\ timeout' = t1
         /\ xlog' = x1
         /\ ret' = NSAPI_ERROR_DEVICE_ERROR
    ELSE IF fail = "get_firmware_version"
    THEN /\ timeout' = t2
         /\ xlog' = x1 \o x2
         /\ ret' = NSAPI_ERROR_DEVICE_ERROR
    ELSE /\ timeout' = t3
         /\ xlog' = x1 \o x2 \o x3
         /\ ret' = CASE fail = "startup" -> NSAPI_ERROR_DEVICE_ERROR
                     [] fail = "dhcp" -> NSAPI_ERROR_DHCP_FAILURE
                     [] fail = "connect" -> NSAPI_ERROR_NO_CONNECTION
                     [] fail = "getIPAddress" -> NSAPI_ERROR_DHCP_FAILURE
                     [] OTHER -> NSAPI_ERROR_OK

AssocFailures == {"none", "reset", "get_firmware_version", "startup", "dhcp",
                  "connect", "getIPAddress"}

connect(fail) ==
    /\ StationFrame
    /\ op' = "connect()"
    /\ arg' = NoArg
    /\ UNCHANGED sta
    /\ Associate(fail)

(* connect(ssid, pass, security, channel) *)
connect_to(ssid, pass, security, channel, fail) ==
    /\ StationFrame
    /\ op' = "connect(ssid)"
    /\ arg' = [NoArg EXCEPT !.cfg = [ssid |-> ssid, pass |-> pass,
                                     sec |-> security, ch |-> channel]]
    /\ IF ~ChannelSupported(channel)
       THEN /\ ret' = NSAPI_ERROR_UNSUPPORTED
            /\ xlog' = <<>>
            /\ UNCHANGED <<sta, timeout>>
       ELSE /\ sta' = SetCredentials(sta, ssid, pass, security)
            /\ Associate(fail)

set_credentials(ssid, pass, security) ==
    /\ StationFrame
    /\ op' = "set_credentials"
    /\ arg' = [NoArg EXCEPT !.cfg = [ssid |-> ssid, pass |-> pass, sec |-> security]]
    /\ sta' = SetCredentials(sta, ssid, pass, security)
    /\ ret' = 0
    /\ xlog' = <<>>
    /\ UNCHANGED timeout

set_channel(channel) ==
    /\ StationFrame
    /\ op' = "set_channel"
    /\ arg' = [NoArg EXCEPT !.cfg = [ch |-> channel]]
    /\ sta' = [sta EXCEPT !.ch = channel]
    /\ ret' = NSAPI_ERROR_OK
    /\ xlog' = <<>>
    /\ UNCHANGED timeout

----------------------------------------------------------------------------
Next ==
    \/ \E p \in Protos : socket_open(p)
    \/ \E h \in Handles, ok \in BOOLEAN : socket_close(h, ok)
    \/ \E h \in Handles, a \in Peers, ok \in BOOLEAN : socket_connect(h, a, ok)
    \/ \E h \in Handles, n \in Sizes, ok \in BOOLEAN : socket_send(h, n, ok)
    \/ \E h \in Handles, n \in Sizes : socket_recv(h, n)
    \/ \E h \in Handles, a \in Peers, n \in Sizes, f \in {"none", "close", "open", "send"} :
          socket_sendto(h, a, n, f)
    \/ \E h \in Handles, n \in Sizes, w \in BOOLEAN : socket_recvfrom(h, n, w)
    \/ \E h \in Handles, cb \in Callbacks \cup {NoCb} : socket_attach(h, cb)
    \/ \E k \in Ids, n \in Counts : DataAvailable(k, n)
    \/ \E k \in Ids : PeerClosed(k)
    \/ \E ok \in BOOLEAN : disconnect(ok)
    \/ \E f \in {"none", "startup", "dhcp", "softAP", "dhcps"} : start_soft_ap(f)
    \/ \E enable \in BOOLEAN, start_ip \in StartIps, end_ip \in EndIps,
          lease_time \in Leases :
          set_ap_dhcp_options(enable, start_ip, end_ip, lease_time)
    \/ \E ok \in BOOLEAN : stop_soft_ap(ok)
    \/ \E ok \in BOOLEAN : start_tcp_server(ok)
    \/ \E ok \in BOOLEAN : stop_tcp_server(ok)
    \/ \E q \in Queries, ok \in BOOLEAN : query(q, ok)
    \/ \E n \in {"ip", "ipv", "name"}, ok \in BOOLEAN : gethostbyname(n, ok)
    \/ \E f \in AssocFailures : connect(f)
    \/ \E ssid \in Ssids, pass \in Passes, sec \in Securities, ch \in Channels,
          f \in AssocFailures : connect_to(ssid, pass, sec, ch, f)
    \/ \E ssid \in Ssids, pass \in Passes, sec \in Securities :
          set_credentials(ssid, pass, sec)
    \/ \E ch \in Channels : set_channel(ch)

Spec == Init /\ [][Next]_vars

(* The same program with a caller that also closes handles it has already *)
(* closed, in the profiles that work a few sockets.                       *)
InitStale == Init /\ use # "table"

NextStale ==
    \/ Next
    \/ \E h \in Handles, i \in Ids, ok \in BOOLEAN : socket_close_stale(h, i, ok)

SpecStale == InitStale /\ [][NextStale]_vars

----------------------------------------------------------------------------
(* Properties *)

(* C1: a successful open hands out the lowest-numbered id that is free at *)
(* the moment of the call.                                                *)
C1_OpenLowestFree ==
    [][(op' = "open" /\ ret' = 0) =>
          /\ ~ids[arg'.id]
          /\ \A j \in Ids : j < arg'.id => ids[j]]_vars

(* An open has just reused id 0 although id 1 is free and id 2 is taken. *)
C1_Witness ==
    /\ op = "open" /\ ret = 0 /\ arg.id = 0
    /\ ~ids[1] /\ ids[2]

(* C2: with all 5 ids allocated an open fails with NO_SOCKET and changes *)
(* no slot; an open that directly follows a close succeeds.              *)
C2_CapacityBound ==
    [][/\ (op' = "open" /\ \A i \in Ids : ids[i]) =>
             /\ ret' = NSAPI_ERROR_NO_SOCKET
             /\ ids' = ids /\ heap' = heap /\ cbs' = cbs /\ pending' = pending
       /\ (op = "close" /\ op' = "open") => ret' = 0]_vars

(* An open has just failed on the full table. *)
C2_Witness ==
    /\ op = "open" /\ ret = NSAPI_ERROR_NO_SOCKET
    /\ \A i \in Ids : ids[i]
    /\ Cardinality(Live) = ESP8266_SOCKET_COUNT

(* C3: after close the id read through the handle is free and the object *)
(* is gone, whatever the close exchange reported; the return value is    *)
(* DEVICE_ERROR exactly when the exchange failed.                        *)
C3_CloseReleases ==
    op = "close" =>
        /\ ~ids[arg.id]
        /\ heap[arg.h].st # "live"
        /\ Len(xlog) = 1 /\ xlog[1].x = "close"
        /\ ret = (IF xlog[1].ok THEN 0 ELSE NSAPI_ERROR_DEVICE_ERROR)

(* A close whose exchange failed has freed its id while others stay *)
(* allocated.                                                       *)
C3_Witness ==
    /\ op = "close" /\ ret = NSAPI_ERROR_DEVICE_ERROR
    /\ ~ids[arg.id]
    /\ \E i \in Ids : ids[i]

(* C4: a second close of a handle already released returns no error (of  *)
(* its own: a failed exchange aside) and leaves every other socket as it *)
(* was: allocation flag, connection status, recorded peer, callback.     *)
C4_SecondCloseHarmless ==
    [][(op' = "close" /\ heap[arg'.h].st = "freed") =>
          /\ xlog'[1].ok => ret' = 0
          /\ cbs' = cbs
          /\ \A g \in Live :
                /\ heap'[g] = heap[g]
                /\ ids'[heap[g].id] = ids[heap[g].id]]_vars

C6_NotificationToOneSlot ==
    [][(op' = "data" /\ ids[arg'.id]) =>
          /\ pending' = [pending EXCEPT ![arg'.id] = @ + arg'.n]
          /\ {f.id : f \in fired'} = {i \in {arg'.id} : cbs[i] # NoCb}
          /\ ids' = ids /\ heap' = heap /\ cbs' = cbs]_vars

(* C7: a notification that names a free id invokes no callback for that *)
(* id and leaves the tables unchanged.                                  *)
C7_FreeIdNotificationDropped ==
    [][(op' \in {"data", "closed"} /\ ~ids[arg'.id]) =>
          /\ \A f \in fired' : f.id # arg'.id
          /\ ids' = ids /\ heap' = heap /\ cbs' = cbs
          /\ pending' = pending]_vars

C9_PeerClosedDisconnects ==
    [][(op' = "closed" /\ \E h \in Live : heap[h].id = arg'.id /\ heap[h].connected) =>
          /\ \A h \in Live : heap[h].id = arg'.id => ~heap'[h].connected
          /\ cbs[arg'.id] # NoCb => \E f \in fired' : f.id = arg'.id]_vars

(* C10, as claimed: recv with nothing buffered returns WOULD_BLOCK, and *)
(* recv never returns 0.                                                *)
C10_RecvNeverZero ==
    [][op' = "recv" =>
          /\ pending[arg'.id] = 0 => ret' = NSAPI_ERROR_WOULD_BLOCK
          /\ ret' # 0]_vars

(* C10, amended: recv with nothing buffered returns WOULD_BLOCK, and recv *)
(* into a buffer of non-zero size never returns 0.                        *)
C10_RecvWouldBlock ==
    [][op' = "recv" =>
          /\ pending[arg'.id] = 0 => ret' = NSAPI_ERROR_WOULD_BLOCK
          /\ arg'.n > 0 => ret' # 0]_vars

(* A recv into a real buffer has found nothing buffered, after bytes had *)
(* arrived on another id.                                                *)
C10_Witness ==
    /\ op = "recv" /\ arg.n > 0 /\ ret = NSAPI_ERROR_WOULD_BLOCK
    /\ \E i \in Ids : pending[i] > 0

(* C11: a sendto to peer B on a connected socket that records another   *)
(* peer A issues a close, then an open to B, then the send, stopping at *)
(* the first exchange that fails; when it succeeds the socket records B *)
(* and is connected.  A sendto to the peer the connected socket already *)
(* records issues the send exchange alone and leaves the socket as is.  *)
C11_Retarget ==
    [][op' = "sendto" =>
          LET h == arg'.h
              b == arg'.peer
              kinds == [i \in 1 .. Len(xlog') |-> xlog'[i].x] IN
          /\ (heap[h].connected /\ heap[h].addr \in Peers /\ heap[h].addr # b) =>
                /\ kinds \in {<<"close">>, <<"close", "open">>,
                              <<"close", "open", "send">>}
                /\ Len(xlog') >= 2 => xlog'[2].peer = b
                /\ ret' >= 0 =>
                      /\ Len(xlog') = 3
                      /\ heap'[h].connected /\ heap'[h].addr = b
          /\ (heap[h].connected /\ heap[h].addr = b) =>
                /\ kinds = <<"send">>
                /\ heap'[h] = heap[h]]_vars

(* A UDP socket has just been retargeted to B by a sendto that went *)
(* through close, open and send.                                    *)
C11_Witness ==
    /\ op = "sendto" /\ ret >= 0 /\ arg.peer = "B"
    /\ Len(xlog) = 3 /\ xlog[1].x = "close"
    /\ heap[arg.h].proto = "UDP"
    /\ heap[arg.h].connected /\ heap[arg.h].addr = "B"

(* C12: after a successful connect the socket is connected and records *)
(* the address that was passed to connect.                             *)
C12_ConnectRecordsPeer ==
    [][(op' = "connect" /\ ret' = 0) =>
          /\ heap'[arg'.h].connected
          /\ heap'[arg'.h].addr = arg'.peer]_vars

(* C13: a connect whose open exchange fails returns DEVICE_ERROR and    *)
(* leaves the socket allocated and as it was: a socket that was not     *)
(* connected stays not connected, and the recorded peer is unchanged.   *)
C13_ConnectFailure ==
    [][(op' = "connect" /\ \E i \in 1 .. Len(xlog') : ~xlog'[i].ok) =>
          /\ ret' = NSAPI_ERROR_DEVICE_ERROR
          /\ ids'[arg'.id] /\ ids' = ids
          /\ heap'[arg'.h].st = "live"
          /\ heap'[arg'.h] = heap[arg'.h]]_vars

(* A connect has just failed on a socket that is allocated and not *)
(* connected.                                                      *)
C13_Witness ==
    /\ op = "connect" /\ ret = NSAPI_ERROR_DEVICE_ERROR
    /\ ids[arg.id]
    /\ heap[arg.h].st = "live" /\ ~heap[arg.h].connected

(* C14: send on a socket that is not connected fails, with an error    *)
(* other than DEVICE_ERROR; send on a connected socket returns         *)
(* DEVICE_ERROR when the exchange is rejected and the size otherwise.  *)
C14_SendNeedsConnection ==
    [][op' = "send" =>
          IF heap[arg'.h].connected
          THEN ret' = (IF \A i \in 1 .. Len(xlog') : xlog'[i].ok
                       THEN arg'.n ELSE NSAPI_ERROR_DEVICE_ERROR)
          ELSE ret' < 0 /\ ret' # NSAPI_ERROR_DEVICE_ERROR]_vars

(* C15: a sendto whose close exchange succeeds and whose open exchange  *)
(* then fails returns an error without a send exchange and leaves the   *)
(* socket allocated and not connected; a connect or sendto on a socket  *)
(* that is not connected starts with an open exchange to its peer.      *)
C15_RetargetReconnectFails ==
    [][/\ (/\ op' = "sendto" /\ Len(xlog') >= 2
           /\ xlog'[1].x = "close" /\ xlog'[1].ok
           /\ xlog'[2].x = "open" /\ ~xlog'[2].ok) =>
             /\ ret' = NSAPI_ERROR_DEVICE_ERROR
             /\ \A i \in 1 .. Len(xlog') : xlog'[i].x # "send"
             /\ ids'[arg'.id]
             /\ heap'[arg'.h].st = "live" /\ ~heap'[arg'.h].connected
       /\ (op' \in {"connect", "sendto"} /\ ~heap[arg'.h].connected) =>
             /\ xlog'[1].x = "open" /\ xlog'[1].peer = arg'.peer]_vars

(* A retargeting sendto has just stopped at its failed open exchange. *)
C15_Witness ==
    /\ op = "sendto" /\ ret = NSAPI_ERROR_DEVICE_ERROR
    /\ Len(xlog) = 2
    /\ xlog[1].x = "close" /\ xlog[1].ok
    /\ xlog[2].x = "open" /\ ~xlog[2].ok
    /\ ~heap[arg.h].connected /\ ids[arg.id]

(* C16: connect, send, recv, recvfrom and close issue exactly one       *)
(* exchange per call; sendto issues at most one close, one open and one *)
(* send, in this order; no call issues an exchange after one that       *)
(* failed, and a call returns an error exactly when its last exchange   *)
(* failed.                                                              *)
C16_NoRetry ==
    LET kinds == [i \in 1 .. Len(xlog) |-> xlog[i].x] IN
    op \in {"connect", "send", "recv", "recvfrom", "close", "sendto"} =>
        /\ op = "connect" => kinds = <<"open">>
        /\ op = "send" => kinds = <<"send">>
        /\ op \in {"recv", "recvfrom"} => kinds = <<"recv">>
        /\ op = "close" => kinds = <<"close">>
        /\ op = "sendto" =>
              kinds \in {<<"send">>, <<"open">>, <<"open", "send">>, <<"close">>,
                         <<"close", "open">>, <<"close", "open", "send">>}
        /\ \A i \in 1 .. Len(xlog) - 1 : xlog[i].ok
        /\ ret < 0 <=> ~xlog[Len(xlog)].ok

(* A sendto has gone through close and open and failed in its send. *)
C16_Witness ==
    /\ op = "sendto" /\ ret = NSAPI_ERROR_DEVICE_ERROR
    /\ Len(xlog) = 3 /\ ~xlog[3].ok

(* C17: attach writes the callback/data pair it is given into the entry *)
(* of its socket's id and into no other entry, replacing what was there; *)
(* nothing but attach changes an entry; an event invokes, for each id,   *)
(* the pair its entry holds at that moment, and nothing for an id whose  *)
(* entry is null.                                                        *)
C17_AttachReplaces ==
    [][/\ op' = "attach" => cbs' = [cbs EXCEPT ![arg'.id] = arg'.cb]
       /\ op' # "attach" => cbs' = cbs
       /\ op' \in {"data", "closed"} =>
             /\ \A f \in fired' : cbs[f.id] = f.cb
             /\ \A i \in Ids : cbs[i] # NoCb <=> \E f \in fired' : f.id = i]_vars

(* An event has invoked cb2 for id 0, the pair that entry holds. *)
C17_Witness ==
    /\ op \in {"data", "closed"}
    /\ [id |-> 0, cb |-> "cb2"] \in fired
    /\ cbs[0] = "cb2"

(* C18: recvfrom returns what recv returns on the same socket; with a   *)
(* byte count it reports the address the socket records, which is the   *)
(* peer the socket was last connected to; with WOULD_BLOCK it leaves    *)
(* the caller's address untouched.                                      *)
C18_RecvfromReportsPeer ==
    [][op' = "recvfrom" =>
          /\ ret' = RecvResult(EspRecv(pending, arg'.id, arg'.n))
          /\ (ret' >= 0 /\ out' # "untouched") =>
                /\ out' = heap[arg'.h].addr
                /\ out' = lastpeer[arg'.id]
          /\ ret' = NSAPI_ERROR_WOULD_BLOCK => out' = "untouched"]_vars

(* C19: every exchange of a socket operation runs under the timeout of *)
(* its kind: open and close under the misc timeout of 500 ms, send     *)
(* under the send timeout of 500 ms, recv under the timeout 0.         *)
C19_ExchangeTimeouts ==
    op \in {"connect", "send", "recv", "recvfrom", "close", "sendto"} =>
        \A i \in 1 .. Len(xlog) :
            /\ xlog[i].x \in {"open", "close"} =>
                  xlog[i].t = ESP8266_MISC_TIMEOUT /\ xlog[i].t = 500
            /\ xlog[i].x = "send" =>
                  xlog[i].t = ESP8266_SEND_TIMEOUT /\ xlog[i].t = 500
            /\ xlog[i].x = "recv" =>
                  xlog[i].t = ESP8266_RECV_TIMEOUT /\ xlog[i].t = 0

(* A sendto has issued close, open and send, each under its timeout, on *)
(* a socket that holds buffered bytes.                                  *)
C19_Witness ==
    /\ op = "sendto" /\ Len(xlog) = 3
    /\ xlog[1].t = 500 /\ xlog[2].t = 500 /\ xlog[3].t = 500
    /\ timeout = ESP8266_SEND_TIMEOUT
    /\ pending[arg.id] > 0

(* C20: every exchange of an operation of the network interface itself *)
(* runs under the misc timeout, whatever ran before it, and none of    *)
(* these operations changes the socket table or the callback table.    *)
C20_FacadeUnderMiscTimeout ==
    [][op' \in FacadeOps =>
          /\ \A i \in 1 .. Len(xlog') : xlog'[i].t = ESP8266_MISC_TIMEOUT
          /\ ids' = ids /\ cbs' = cbs]_vars

(* C21: the count of bytes buffered for an id is never negative; a recv *)
(* or recvfrom that returns a byte count lowers the count of its id by  *)
(* that many bytes, not below zero; a count rises only in a             *)
(* data-available notification for its id.                              *)
C21_PendingNeverNegative ==
    [][/\ \A i \in Ids : pending[i] >= 0 /\ pending'[i] >= 0
       /\ (op' \in {"recv", "recvfrom"} /\ ret' >= 0) =>
             pending'[arg'.id] =
                 (IF pending[arg'.id] > ret' THEN pending[arg'.id] - ret' ELSE 0)
       /\ \A i \in Ids :
             pending'[i] > pending[i] => op' = "data" /\ arg'.id = i]_vars

(* A recv has taken part of what was buffered: bytes came back and *)
(* bytes remain.                                                   *)
C21_Witness ==
    /\ op = "recv" /\ ret > 0
    /\ pending[arg.id] > 0

(* C22: set_channel returns NSAPI_ERROR_UNSUPPORTED for every channel. *)
C22_SetChannelUnsupported ==
    [][op' = "set_channel" => ret' = NSAPI_ERROR_UNSUPPORTED]_vars

(* C23: connect(ssid, pass, security, channel) with a channel other than *)
(* 0 returns NSAPI_ERROR_UNSUPPORTED, issues no exchange and leaves _sta *)
(* and the transport's timeout as they were.                             *)
C23_ConnectChannelRefused ==
    [][(op' = "connect(ssid)" /\ arg'.cfg.ch # 0) =>
          /\ ret' = NSAPI_ERROR_UNSUPPORTED
          /\ xlog' = <<>>
          /\ sta' = sta
          /\ timeout' = timeout]_vars

(* A connect with channel 1 and other credentials than the stored ones *)
(* has been refused after an earlier association set the timeout.      *)
C23_Witness ==
    /\ op = "connect(ssid)" /\ ret = NSAPI_ERROR_UNSUPPORTED
    /\ arg.cfg.ch = 1
    /\ arg.cfg.ssid # CStr(sta.ssid) /\ arg.cfg.pass # CStr(sta.pass)
    /\ timeout = ESP8266_CONNECT_TIMEOUT

C25_RetargetCloseFails ==
    [][/\ (op' = "sendto" /\ xlog'[1].x = "close" /\ ~xlog'[1].ok) =>
             /\ ret' = NSAPI_ERROR_DEVICE_ERROR
             /\ \A i \in 1 .. Len(xlog') : xlog'[i].x = "close"
             /\ ids'[arg'.id] /\ heap'[arg'.h].st = "live"
             /\ heap'[arg'.h].connected
             /\ heap'[arg'.h].addr = heap[arg'.h].addr
       /\ (/\ op = "sendto" /\ xlog[1].x = "close" /\ ~xlog[1].ok
           /\ op' = "sendto" /\ arg'.h = arg.h /\ arg'.peer = arg.peer) =>
             xlog'[1].x = "close"]_vars

(* A sendto to B has just failed in the close of its retarget; the *)
(* socket still records A.                                         *)
C25_Witness ==
    /\ op = "sendto" /\ ret = NSAPI_ERROR_DEVICE_ERROR /\ arg.peer = "B"
    /\ Len(xlog) = 1 /\ xlog[1].x = "close" /\ ~xlog[1].ok
    /\ heap[arg.h].connected /\ heap[arg.h].addr = "A"

(* C26: a sendto on a socket that is not connected issues no close; it *)
(* issues the open to the peer passed in first and, when that          *)
(* succeeds, records the peer and issues the send; when the open fails *)
(* it issues no send and the recorded peer stays as it was.            *)
C26_SendtoConnectsFirst ==
    [][(op' = "sendto" /\ ~heap[arg'.h].connected) =>
          /\ xlog'[1].x = "open" /\ xlog'[1].peer = arg'.peer
          /\ IF xlog'[1].ok
             THEN /\ Len(xlog') = 2 /\ xlog'[2].x = "send"
                  /\ heap'[arg'.h].connected
                  /\ heap'[arg'.h].addr = arg'.peer
             ELSE /\ Len(xlog') = 1
                  /\ ret' < 0
                  /\ ~heap'[arg'.h].connected
                  /\ heap'[arg'.h].addr = heap[arg'.h].addr]_vars

(* The first sendto of a socket has opened the link to A, recorded A *)
(* and sent.                                                         *)
C26_Witness ==
    /\ op = "sendto" /\ ret >= 0 /\ arg.peer = "A"
    /\ Len(xlog) = 2 /\ xlog[1].x = "open" /\ xlog[2].x = "send"
    /\ heap[arg.h].connected /\ heap[arg.h].addr = "A"

(* C27: the callback table entry of an id changes only through an attach *)
(* to that id; a callback attached to an id stays registered when that   *)
(* socket is closed, is invoked by every later event, and is the entry   *)
(* the next socket opened with the same id finds.                        *)
C27_CallbacksOnlyByAttach ==
    [][/\ \A i \in Ids :
             cbs'[i] # cbs[i] => (op' = "attach" /\ arg'.id = i)
       /\ op' = "close" => cbs'[arg'.id] = cbs[arg'.id]
       /\ op' \in {"data", "closed"} =>
             \A i \in Ids : (~ids[i] /\ cbs[i] # NoCb) =>
                               [id |-> i, cb |-> cbs[i]] \in fired'
       /\ (op' = "open" /\ ret' = 0) => cbs'[arg'.id] = cbs[arg'.id]]_vars

(* A socket has been opened with an id whose entry still holds the *)
(* callback attached to the socket that held the id before.        *)
C27_Witness ==
    /\ op = "open" /\ ret = 0
    /\ cbs[arg.id] # NoCb

(* C28: set_ap_dhcp_options with enable = true and a start_ip or end_ip *)
(* that is null or empty returns -1 and leaves _dhcps as it was; with   *)
(* both addresses present (texts of 1 to 15 characters, the length of   *)
(* an IPv4 address) it returns 0 and _dhcps holds the enable flag, both *)
(* addresses as terminated strings, and the lease time passed in.       *)
C28_DhcpOptions ==
    [][op' = "set_ap_dhcp_options" =>
          LET c == arg'.cfg
              absent(p) == p.null \/ Len(p.text) = 0
              address(p) == ~p.null /\ Len(p.text) \in 1 .. IpSize - 1
          IN  /\ (c.enable /\ (absent(c.start_ip) \/ absent(c.end_ip))) =>
                    /\ ret' = 0 - 1
                    /\ dhcps' = dhcps
              /\ (address(c.start_ip) /\ address(c.end_ip)) =>
                    /\ ret' = 0
                    /\ dhcps'.enable = c.enable
                    /\ Terminated(dhcps'.start_ip)
                    /\ CStr(dhcps'.start_ip) = c.start_ip.text
                    /\ Terminated(dhcps'.end_ip)
                    /\ CStr(dhcps'.end_ip) = c.end_ip.text
                    /\ dhcps'.lease_time = c.lease_time]_vars

(* Options enabling the server without a start address have been      *)
(* refused, and _dhcps still holds the addresses an earlier call stored. *)
C28_Witness ==
    /\ op = "set_ap_dhcp_options" /\ ret = 0 - 1
    /\ arg.cfg.enable /\ arg.cfg.start_ip.null /\ ~arg.cfg.end_ip.null
    /\ Terminated(dhcps.start_ip) /\ Len(CStr(dhcps.start_ip)) = IpSize - 1
    /\ Terminated(dhcps.end_ip) /\ Len(CStr(dhcps.end_ip)) = IpSize - 1

====
